---- MODULE Spec2Model ----
(***************************************************************************)
(* Forex Trade Alerter (src/src/main.py): the polling loop of main(), the  *)
(* two condition checks check_usdcad_breakout and check_boe_announcement,  *)
(* and the notification sink send_notification.                            *)
(*                                                                         *)
(* Prices are in units of 0.0001 (1.3890 is 13890); instants are seconds   *)
(* after 2025-08-07T00:00:00Z (11:00 UTC is 39600).                        *)
(***************************************************************************)
EXTENDS Integers, Sequences, FiniteSets

VARIABLES
    pc,                 \* position of main(): see Running / Terminal below
    usdcad_triggered,   \* main.py:136
    boe_triggered,      \* main.py:137
    trigger,            \* the module global USDCAD_ENTRY_TRIGGER (main.py:46)
    announce,           \* the module global BOE_ANNOUNCEMENT_UTC (main.py:51)
    lead,               \* the timedelta of main.py:113, in seconds
    now,                \* the wall clock, read at main.py:110
    tick,               \* number of sleeps completed so far (loop iterations begun - 1)
    sent,               \* per condition: calls of send_notification so far
    postResult,         \* per condition: how requests.post ended ("none" before it returns)
    tickEvals,          \* per condition: calls of its check function in the current tick
    fetches,            \* calls of yf.download so far
    clockReads,         \* clock comparisons (main.py:117) so far
    lastFetch,          \* what the last yf.download call produced
    downloadArgs,       \* the arguments of the last yf.download call
    emptyRun,           \* how many downloads in a row, up to the last, were empty
    usdBranch,          \* the branch the last check_usdcad_breakout call took
    boeBranch,          \* the branch the last check_boe_announcement call took
    failed,             \* conditions whose check raised an Exception in the current tick
    startFired,         \* the two flags as they were when the current tick began
    lastSleep,          \* "none" | "interval" (main.py:154) | "cooldown" (main.py:162)
    sleptSeconds,       \* the argument of the last time.sleep call that returned
    interrupted,        \* a KeyboardInterrupt was delivered
    sendArgs,           \* title, message and tags of the last send_notification call
    requests,           \* the requests.post calls that call made
    postOutcome,        \* how the last requests.post ended, "none" while it runs
    printed,            \* what that send_notification call printed: "sent" | "error"
    sends,              \* send_notification calls made on their own (not from main)
    propagated          \* the exception that left main(), "none" if none did

vars == <<pc, usdcad_triggered, boe_triggered, trigger, announce, lead, now, tick,
          sent, postResult, tickEvals, fetches, clockReads, lastFetch, downloadArgs,
          emptyRun, usdBranch, boeBranch, failed, startFired, lastSleep, sleptSeconds, interrupted,
          sendArgs, requests, postOutcome, printed, sends, propagated>>

----------------------------------------------------------------------------
\* Bounds of the model

MaxTicks == 3
MaxLen == 2
MaxSends == 2

\* Program constants

USDCAD_ENTRY_TRIGGER == 13890
BOE_ANNOUNCEMENT_UTC == 39600
ALERT_LEAD_SECONDS == 300
CHECK_INTERVAL_SECONDS == 60
\* Faulty variant: a cooldown shorter than the tick interval
CooldownShort == CHECK_INTERVAL_SECONDS - 30

\* The literal of time.sleep(60) in the handler of "except Exception"
COOLDOWN_SECONDS == 60

\* float('nan'): not a price, and every ordering comparison with it is false
NaN == -1

Conds == {"usdcad", "boe"}

Running == {"check_usd", "usd_post", "check_boe", "boe_post", "check_all", "sleep", "cooldown"}
Terminal == {"done", "stopped", "crashed"}

----------------------------------------------------------------------------
\* Inputs

\* Close prices a download may hold, around the configured trigger
Prices(t) == {NaN, t - 1, t, t + 1}

Series(t) == UNION {[1..n -> Prices(t)] : n \in 0..MaxLen}

\* What the try body of check_usdcad_breakout meets up to main.py:90: a frame
\* (possibly empty), or an Exception from the download or from reading
\* data['Close'].iloc[-1] (malformed data)
FetchResults(t) ==
    {[kind |-> "data", closes |-> s] : s \in Series(t)}
        \cup {[kind |-> "raise", closes |-> <<>>]}

NoFetch == [kind |-> "none", closes |-> <<>>]

USDCAD_TICKER == "CAD=X"

\* yf.download(USDCAD_TICKER, period="1d", interval="1m", auto_adjust=True,
\* progress=False): the positional argument and the keyword arguments
DownloadCall ==
    [ticker |-> USDCAD_TICKER,
     kwargs |-> {<<"period", "1d">>, <<"interval", "1m">>,
                 <<"auto_adjust", "True">>, <<"progress", "False">>}]

NoDownload == [ticker |-> "", kwargs |-> {}]

\* How requests.post ends: a 2xx response, another response (post returns it
\* without raising), or a requests exception
PostOutcomes == {"ok", "http_error", "error"}

\* Wall-clock instants at which the process may start, relative to the window start
StartOffsets == {-240, -61, -60, -1, 0}

Thresholds == {USDCAD_ENTRY_TRIGGER, USDCAD_ENTRY_TRIGGER + 10}

\* Arguments of a send_notification call made on its own: texts of one-, two-,
\* three- and four-byte code points, and the empty default of tags
SendTitles == {<<84>>, <<128276, 65>>}

SendMessages == {<<>>, <<65>>, <<233>>, <<8364, 66>>, <<128680>>}

SendTags == {<<>>, <<105>>}

\* Announcement instants and lead times a configuration may hold
Announcements == {BOE_ANNOUNCEMENT_UTC, BOE_ANNOUNCEMENT_UTC + 3600}

Leads == {ALERT_LEAD_SECONDS, 0}

\* Start instants relative to the window start: before it, at it, and a day late
WindowOffsets == {-60, -1, 0, 86400}

----------------------------------------------------------------------------
\* Text.  A str is the sequence of its code points, a bytes object the sequence
\* of its bytes.

NTFY_TOPIC == "carlos-fx-alerts-1066"

\* "🚨 USD/CAD TRADE ALERT 🚨"
UsdcadTitle ==
    <<128680, 32, 85, 83, 68, 47, 67, 65, 68, 32, 84, 82, 65, 68, 69, 32,
      65, 76, 69, 82, 84, 32, 128680>>

\* "🔔 GBP/USD EVENT ALERT 🔔"
BoeTitle ==
    <<128276, 32, 71, 66, 80, 47, 85, 83, 68, 32, 69, 86, 69, 78, 84, 32,
      65, 76, 69, 82, 84, 32, 128276>>

\* "USD/CAD has broken above the entry trigger of "
UsdcadMessageHead ==
    <<85, 83, 68, 47, 67, 65, 68, 32, 104, 97, 115, 32, 98, 114, 111, 107,
      101, 110, 32, 97, 98, 111, 118, 101, 32, 116, 104, 101, 32, 101, 110, 116,
      114, 121, 32, 116, 114, 105, 103, 103, 101, 114, 32, 111, 102, 32>>

\* ". Last price: "
UsdcadMessageMid ==
    <<46, 32, 76, 97, 115, 116, 32, 112, 114, 105, 99, 101, 58, 32>>

\* "Bank of England announcement is at 11:00 UTC. Monitor GBP/USD for post-announcement low to form and break."
BoeMessage ==
    <<66, 97, 110, 107, 32, 111, 102, 32, 69, 110, 103, 108, 97, 110, 100, 32,
      97, 110, 110, 111, 117, 110, 99, 101, 109, 101, 110, 116, 32, 105, 115, 32,
      97, 116, 32, 49, 49, 58, 48, 48, 32, 85, 84, 67, 46, 32, 77, 111,
      110, 105, 116, 111, 114, 32, 71, 66, 80, 47, 85, 83, 68, 32, 102, 111,
      114, 32, 112, 111, 115, 116, 45, 97, 110, 110, 111, 117, 110, 99, 101, 109,
      101, 110, 116, 32, 108, 111, 119, 32, 116, 111, 32, 102, 111, 114, 109, 32,
      97, 110, 100, 32, 98, 114, 101, 97, 107, 46>>

\* "warning"
TagWarning == <<119, 97, 114, 110, 105, 110, 103>>

\* "info"
TagInfo == <<105, 110, 102, 111>>

\* The decimal digits of a natural number
RECURSIVE DecimalDigits(_)
DecimalDigits(n) ==
    IF n < 10 THEN <<48 + n>>
    ELSE DecimalDigits(n \div 10) \o <<48 + (n % 10)>>

\* The digits of a fraction f/10000 without its trailing zeros, "0" for none
RECURSIVE FractionDigits(_, _)
FractionDigits(f, width) ==
    IF f = 0 THEN (IF width = 4 THEN <<48>> ELSE <<>>)
    ELSE <<48 + (f \div 1000)>> \o FractionDigits((f % 1000) * 10, width - 1)

\* f"{x}" of a float x = p/10000 >= 0: the shortest decimal that reads back as x
ReprFloat(p) == DecimalDigits(p \div 10000) \o <<46>> \o FractionDigits(p % 10000, 4)

\* f"{x:.4f}" of a float x = p/10000 >= 0
Format4f(p) ==
    DecimalDigits(p \div 10000) \o <<46>>
        \o <<48 + ((p \div 1000) % 10), 48 + ((p \div 100) % 10),
             48 + ((p \div 10) % 10), 48 + (p % 10)>>

\* The message check_usdcad_breakout builds
UsdcadMessage(trig, last_price) ==
    UsdcadMessageHead \o ReprFloat(trig) \o UsdcadMessageMid \o Format4f(last_price)

\* One code point in UTF-8
Utf8Char(c) ==
    IF c < 128 THEN <<c>>
    ELSE IF c < 2048 THEN <<192 + (c \div 64), 128 + (c % 64)>>
    ELSE IF c < 65536
         THEN <<224 + (c \div 4096), 128 + ((c \div 64) % 64), 128 + (c % 64)>>
    ELSE <<240 + (c \div 262144), 128 + ((c \div 4096) % 64),
           128 + ((c \div 64) % 64), 128 + (c % 64)>>

\* message.encode('utf-8')
RECURSIVE Utf8Encode(_)
Utf8Encode(str) ==
    LET n == Len(str)
        h == n \div 2
    IN
    IF n = 0 THEN <<>>
    ELSE IF n = 1 THEN Utf8Char(str[1])
    ELSE Utf8Encode(SubSeq(str, 1, h)) \o Utf8Encode(SubSeq(str, h + 1, n))

\* Faulty variant: the message is posted as it is, not encoded
PostRequestRaw(title, message, tags) ==
    [url     |-> "https://ntfy.sh/" \o NTFY_TOPIC,
     data    |-> message,
     headers |-> [Title |-> title, Tags |-> tags]]

\* The arguments of the call requests.post(url, data=..., headers=...)
PostRequest(title, message, tags) ==
    [url     |-> "https://ntfy.sh/" \o NTFY_TOPIC,
     data    |-> Utf8Encode(message),
     headers |-> [Title |-> title, Tags |-> tags]]

\* The requests.post calls of one send_notification(title, message, tags), in order
SendRequests(title, message, tags) == <<PostRequest(title, message, tags)>>

\* What send_notification prints after the post: the "Notification Sent" line when
\* post returned a response, whatever its status; the error line when it raised
SendPrints(o) == IF o = "error" THEN "error" ELSE "sent"

NoArgs == [title |-> <<>>, message |-> <<>>, tags |-> <<>>]

----------------------------------------------------------------------------
\* Exception handling

\* Faulty variant: send_notification without its try statement
SendCatchesNothing(e) == FALSE

\* The clause "except Exception" of send_notification
SendCatches(e) == e = "Exception"

\* Faulty variant: check_usdcad_breakout without its try statement
UsdcadCatchesNothing(e) == FALSE

\* The clause "except Exception" of check_usdcad_breakout
UsdcadCatches(e) == e = "Exception"

\* The two clauses of main's try statement: both kinds are handled there
MainCatches(e) == e \in {"KeyboardInterrupt", "Exception"}

\* Faulty variant: main breaks out of the loop on any exception
MainHandlerBreaks(e) == "stopped"

\* Faulty variant: main goes straight back to the top of the loop, without sleeping
MainHandlerRetriesAtOnce(e) == IF e = "KeyboardInterrupt" THEN "stopped" ELSE "check_usd"

\* Where main's try statement takes the loop for an exception it handles:
\* "break" for KeyboardInterrupt, the cooldown sleep for any other Exception
MainHandler(e) == IF e = "KeyboardInterrupt" THEN "stopped" ELSE "cooldown"

\* The try statements enclosing each position, innermost first.  The cooldown
\* sleep runs inside an except clause of main's try statement, which the
\* sibling clauses of that statement do not cover.
Handlers(pos) ==
    CASE pos = "check_usd" -> <<"usdcad", "main">>
      [] pos = "usd_post"  -> <<"send", "usdcad", "main">>
      [] pos = "check_boe" -> <<"main">>
      [] pos = "boe_post"  -> <<"send", "main">>
      [] pos = "check_all" -> <<"main">>
      [] pos = "sleep"     -> <<"main">>
      [] OTHER             -> <<>>

Catches(h, e) ==
    CASE h = "send"   -> SendCatches(e)
      [] h = "usdcad" -> UsdcadCatches(e)
      [] OTHER        -> MainCatches(e)

\* The innermost enclosing try statement that handles e, "none" if none does
RECURSIVE Unwind(_, _)
Unwind(hs, e) ==
    IF hs = <<>> THEN "none"
    ELSE IF Catches(Head(hs), e) THEN Head(hs)
    ELSE Unwind(Tail(hs), e)

----------------------------------------------------------------------------
\* The pure parts of the two checks and of the loop

\* Faulty variant: main calls the checks whatever the flags say
AlwaysCheck(already_triggered) == TRUE

\* "if not usdcad_triggered:" / "if not boe_triggered:"
ShouldCheck(already_triggered) == ~already_triggered

\* Faulty variant: "or" for "and" in the exit test
AnyTriggered(u, b) == u \/ b

\* "if usdcad_triggered and boe_triggered:"
AllTriggered(u, b) == u /\ b

\* data['Close'].iloc[-1].item()
LastClose(closes) == closes[Len(closes)]

\* Faulty variant: "not (last_price <= trigger)", which is true of NaN
IsBreakoutNotBelow(last_price, trig) == last_price = NaN \/ last_price > trig

\* Faulty variant: ">=" for ">"
IsBreakoutNonStrict(last_price, trig) == last_price # NaN /\ last_price >= trig

\* "last_price > USDCAD_ENTRY_TRIGGER" on floats: false whenever last_price is NaN
IsBreakout(last_price, trig) == last_price # NaN /\ last_price > trig

\* BOE_ANNOUNCEMENT_UTC - timedelta(minutes=5)
AlertWindowStart(ann, ld) == ann - ld

\* Faulty variant: ">" for ">="
InAlertWindowStrict(now_utc, ann, ld) == now_utc > AlertWindowStart(ann, ld)

\* "now_utc >= alert_window_start"
InAlertWindow(now_utc, ann, ld) == now_utc >= AlertWindowStart(ann, ld)

\* Faulty variants: the flag follows the delivery, or is never set
UsdcadReturnIfDelivered(outcome) == outcome = "ok"

BoeReturnFalse(outcome) == FALSE

\* "return True" after send_notification returned, whatever the post did
UsdcadReturnAfterSend(outcome) == TRUE

BoeReturnAfterSend(outcome) == TRUE

\* Faulty variant: no "if data.empty" test; iloc[-1] of an empty frame raises
UsdcadBranchNoEmptyTest(already_triggered, fr, trig) ==
    IF already_triggered THEN "already"
    ELSE IF fr.kind = "raise" \/ fr.closes = <<>> THEN "error"
    ELSE IF IsBreakout(LastClose(fr.closes), trig) THEN "triggered"
    ELSE "not_triggered"

\* The branch check_usdcad_breakout(already_triggered) takes on a fetch result
UsdcadBranch(already_triggered, fr, trig) ==
    IF already_triggered THEN "already"
    ELSE IF fr.kind = "raise" THEN "error"
    ELSE IF fr.closes = <<>> THEN "no_data"
    ELSE IF IsBreakout(LastClose(fr.closes), trig) THEN "triggered"
    ELSE "not_triggered"

\* The branch check_boe_announcement(already_triggered) takes; clockFails is an
\* Exception raised before the comparison (clock read, formatting, logging)
BoeBranch(already_triggered, clockFails, now_utc, ann, ld) ==
    IF already_triggered THEN "already"
    ELSE IF clockFails THEN "error"
    ELSE IF InAlertWindow(now_utc, ann, ld) THEN "triggered"
    ELSE "not_triggered"

\* The state a raised exception e leaves the loop in, raised at position pos
Landing(pos, e) ==
    LET h == Unwind(Handlers(pos), e) IN
    CASE h = "send" ->
            \* prints the error; send_notification returns and its caller goes on
            IF pos = "usd_post"
            THEN [pc |-> "check_boe", usd |-> UsdcadReturnAfterSend("error"),
                  boe |-> boe_triggered, out |-> "none"]
            ELSE [pc |-> "check_all", usd |-> usdcad_triggered,
                  boe |-> BoeReturnAfterSend("error"), out |-> "none"]
      [] h = "usdcad" ->
            \* prints the error, falls through to "return False"
            [pc |-> "check_boe", usd |-> FALSE, boe |-> boe_triggered, out |-> "none"]
      [] h = "main" ->
            [pc |-> MainHandler(e), usd |-> usdcad_triggered, boe |-> boe_triggered,
             out |-> "none"]
      [] OTHER ->
            [pc |-> "crashed", usd |-> usdcad_triggered, boe |-> boe_triggered, out |-> e]

Bump(f, c) == [f EXCEPT ![c] = @ + 1]

----------------------------------------------------------------------------
\* Initial states

\* Faulty variant: the flags start set
InitialFlagSet == TRUE

\* "usdcad_triggered = False" / "boe_triggered = False"
InitialFlag == FALSE

\* Everything but the position, the clock and the configuration
InitData ==
    /\ usdcad_triggered = InitialFlag
    /\ boe_triggered = InitialFlag
    /\ tick = 0
    /\ sent = [c \in Conds |-> 0]
    /\ postResult = [c \in Conds |-> "none"]
    /\ tickEvals = [c \in Conds |-> 0]
    /\ fetches = 0
    /\ clockReads = 0
    /\ lastFetch = NoFetch
    /\ downloadArgs = NoDownload
    /\ emptyRun = 0
    /\ usdBranch = "none"
    /\ boeBranch = "none"
    /\ failed = {}
    /\ startFired = [c \in Conds |-> FALSE]
    /\ lastSleep = "none"
    /\ sleptSeconds = 0
    /\ interrupted = FALSE
    /\ sendArgs = NoArgs
    /\ requests = <<>>
    /\ postOutcome = "none"
    /\ printed = "none"
    /\ sends = 0
    /\ propagated = "none"

\* main() as it enters its loop, but for the clock
InitState ==
    /\ pc = "check_usd"
    /\ InitData

InitRest ==
    /\ now \in {AlertWindowStart(announce, lead) + d : d \in StartOffsets}
    /\ InitState

\* The configuration as the repository ships it
Init ==
    /\ trigger = USDCAD_ENTRY_TRIGGER
    /\ announce = BOE_ANNOUNCEMENT_UTC
    /\ lead = ALERT_LEAD_SECONDS
    /\ InitRest

config == <<trigger, announce, lead>>

----------------------------------------------------------------------------
\* The loop of main(), one action per step at which it can be interrupted

\* "if not usdcad_triggered:" is false
UsdSkip ==
    /\ pc = "check_usd"
    /\ ~ShouldCheck(usdcad_triggered)
    /\ pc' = "check_boe"
    /\ UNCHANGED <<usdcad_triggered, boe_triggered, config, now, tick, sent, postResult,
                   tickEvals, fetches, clockReads, lastFetch, downloadArgs, emptyRun, usdBranch, boeBranch,
                   failed, startFired, lastSleep, sleptSeconds, interrupted, propagated,
                   sendArgs, requests, postOutcome, printed, sends>>

\* usdcad_triggered = check_usdcad_breakout(usdcad_triggered), up to the call of
\* send_notification
UsdEval ==
    /\ pc = "check_usd"
    /\ ShouldCheck(usdcad_triggered)
    /\ \E fr \in FetchResults(trigger) :
        LET b == UsdcadBranch(usdcad_triggered, fr, trigger)
            l == Landing("check_usd", "Exception")
        IN
        /\ usdBranch' = b
        /\ tickEvals' = Bump(tickEvals, "usdcad")
        /\ fetches' = IF b = "already" THEN fetches ELSE fetches + 1
        /\ lastFetch' = IF b = "already" THEN lastFetch ELSE fr
        /\ downloadArgs' = IF b = "already" THEN downloadArgs ELSE DownloadCall
        /\ emptyRun' = CASE b = "already" -> emptyRun
                         [] b = "no_data" -> emptyRun + 1
                         [] OTHER         -> 0
        /\ sent' = IF b = "triggered" THEN Bump(sent, "usdcad") ELSE sent
        /\ failed' = IF b = "error" THEN failed \cup {"usdcad"} ELSE failed
        /\ pc' = CASE b = "triggered" -> "usd_post"
                   [] b = "error"     -> l.pc
                   [] OTHER           -> "check_boe"
        /\ usdcad_triggered' = CASE b = "triggered" -> usdcad_triggered
                                 [] b = "error"     -> l.usd
                                 [] b = "already"   -> TRUE
                                 [] OTHER           -> FALSE
        /\ sendArgs' = IF b = "triggered"
                       THEN [title   |-> UsdcadTitle,
                             message |-> UsdcadMessage(trigger, LastClose(fr.closes)),
                             tags    |-> TagWarning]
                       ELSE sendArgs
        /\ requests' = IF b = "triggered"
                       THEN SendRequests(UsdcadTitle,
                                         UsdcadMessage(trigger, LastClose(fr.closes)),
                                         TagWarning)
                       ELSE requests
        /\ postOutcome' = IF b = "triggered" THEN "none" ELSE postOutcome
        /\ printed' = IF b = "triggered" THEN "none" ELSE printed
        /\ propagated' = IF b = "error" THEN l.out ELSE propagated
    /\ UNCHANGED <<boe_triggered, config, now, tick, postResult, clockReads, boeBranch,
                   startFired, lastSleep, sleptSeconds, interrupted,
                   sends>>

\* requests.post inside send_notification called by check_usdcad_breakout, and
\* the return of both
UsdPost ==
    /\ pc = "usd_post"
    /\ \E o \in PostOutcomes :
        LET l == Landing("usd_post", "Exception") IN
        /\ postResult' = [postResult EXCEPT !["usdcad"] = o]
        /\ pc' = IF o = "error" THEN l.pc ELSE "check_boe"
        /\ usdcad_triggered' = IF o = "error" THEN l.usd ELSE UsdcadReturnAfterSend(o)
        /\ postOutcome' = o
        /\ printed' = IF o = "error" /\ Unwind(Handlers("usd_post"), "Exception") # "send"
                      THEN printed ELSE SendPrints(o)
        /\ propagated' = IF o = "error" THEN l.out ELSE propagated
        /\ failed' = IF o = "error" /\ Unwind(Handlers("usd_post"), "Exception") # "send"
                     THEN failed \cup {"usdcad"} ELSE failed
    /\ UNCHANGED <<boe_triggered, config, now, tick, sent, tickEvals, fetches, clockReads,
                   lastFetch, downloadArgs, emptyRun, usdBranch, boeBranch, startFired, lastSleep, sleptSeconds,
                   interrupted,
                   sendArgs, requests, sends>>

\* The request that check_boe_announcement's send_notification call puts on
\* the wire
BoeRequests == SendRequests(BoeTitle, BoeMessage, TagInfo)

\* "if not boe_triggered:" is false
BoeSkip ==
    /\ pc = "check_boe"
    /\ ~ShouldCheck(boe_triggered)
    /\ pc' = "check_all"
    /\ UNCHANGED <<usdcad_triggered, boe_triggered, config, now, tick, sent, postResult,
                   tickEvals, fetches, clockReads, lastFetch, downloadArgs, emptyRun, usdBranch, boeBranch,
                   failed, startFired, lastSleep, sleptSeconds, interrupted, propagated,
                   sendArgs, requests, postOutcome, printed, sends>>

\* boe_triggered = check_boe_announcement(boe_triggered), up to the call of
\* send_notification
BoeEval ==
    /\ pc = "check_boe"
    /\ ShouldCheck(boe_triggered)
    /\ \E clockFails \in BOOLEAN :
        LET b == BoeBranch(boe_triggered, clockFails, now, announce, lead)
            l == Landing("check_boe", "Exception")
        IN
        /\ boeBranch' = b
        /\ tickEvals' = Bump(tickEvals, "boe")
        /\ clockReads' = IF b \in {"triggered", "not_triggered"}
                         THEN clockReads + 1 ELSE clockReads
        /\ sent' = IF b = "triggered" THEN Bump(sent, "boe") ELSE sent
        /\ failed' = IF b = "error" THEN failed \cup {"boe"} ELSE failed
        /\ pc' = CASE b = "triggered" -> "boe_post"
                   [] b = "error"     -> l.pc
                   [] OTHER           -> "check_all"
        /\ boe_triggered' = CASE b = "triggered" -> boe_triggered
                              [] b = "error"     -> l.boe
                              [] b = "already"   -> TRUE
                              [] OTHER           -> FALSE
        /\ sendArgs' = IF b = "triggered"
                       THEN [title |-> BoeTitle, message |-> BoeMessage, tags |-> TagInfo]
                       ELSE sendArgs
        /\ requests' = IF b = "triggered"
                       THEN BoeRequests
                       ELSE requests
        /\ postOutcome' = IF b = "triggered" THEN "none" ELSE postOutcome
        /\ printed' = IF b = "triggered" THEN "none" ELSE printed
        /\ propagated' = IF b = "error" THEN l.out ELSE propagated
    /\ UNCHANGED <<usdcad_triggered, config, now, tick, postResult, fetches, lastFetch, downloadArgs, emptyRun,
                   usdBranch, startFired, lastSleep, sleptSeconds, interrupted,
                   sends>>

\* requests.post inside send_notification called by check_boe_announcement, and
\* the return of both
BoePost ==
    /\ pc = "boe_post"
    /\ \E o \in PostOutcomes :
        LET l == Landing("boe_post", "Exception") IN
        /\ postResult' = [postResult EXCEPT !["boe"] = o]
        /\ pc' = IF o = "error" THEN l.pc ELSE "check_all"
        /\ boe_triggered' = IF o = "error" THEN l.boe ELSE BoeReturnAfterSend(o)
        /\ postOutcome' = o
        /\ printed' = IF o = "error" /\ Unwind(Handlers("boe_post"), "Exception") # "send"
                      THEN printed ELSE SendPrints(o)
        /\ propagated' = IF o = "error" THEN l.out ELSE propagated
        /\ failed' = IF o = "error" /\ Unwind(Handlers("boe_post"), "Exception") # "send"
                     THEN failed \cup {"boe"} ELSE failed
    /\ UNCHANGED <<usdcad_triggered, config, now, tick, sent, tickEvals, fetches,
                   clockReads, lastFetch, downloadArgs, emptyRun, usdBranch, boeBranch, startFired, lastSleep,
                   sleptSeconds, interrupted,
                   sendArgs, requests, sends>>

\* "if usdcad_triggered and boe_triggered: break"
CheckAll ==
    /\ pc = "check_all"
    /\ pc' = IF AllTriggered(usdcad_triggered, boe_triggered) THEN "done" ELSE "sleep"
    /\ UNCHANGED <<usdcad_triggered, boe_triggered, config, now, tick, sent, postResult,
                   tickEvals, fetches, clockReads, lastFetch, downloadArgs, emptyRun, usdBranch, boeBranch,
                   failed, startFired, lastSleep, sleptSeconds, interrupted, propagated,
                   sendArgs, requests, postOutcome, printed, sends>>

\* A time.sleep(seconds) that returns; the next tick begins
NextTick(kind, seconds) ==
    /\ tick < MaxTicks
    /\ pc' = "check_usd"
    /\ now' = now + seconds
    /\ tick' = tick + 1
    /\ tickEvals' = [c \in Conds |-> 0]
    /\ failed' = {}
    /\ startFired' = [c \in Conds |-> IF c = "usdcad" THEN usdcad_triggered
                                                     ELSE boe_triggered]
    /\ lastSleep' = kind
    /\ sleptSeconds' = seconds
    /\ UNCHANGED <<usdcad_triggered, boe_triggered, config, sent, postResult, fetches,
                   clockReads, lastFetch, downloadArgs, emptyRun, usdBranch, boeBranch, interrupted, propagated,
                   sendArgs, requests, postOutcome, printed, sends>>

\* time.sleep(CHECK_INTERVAL_SECONDS)
Sleep ==
    /\ pc = "sleep"
    /\ NextTick("interval", CHECK_INTERVAL_SECONDS)

\* "except Exception": the message, then time.sleep(60)
Cooldown ==
    /\ pc = "cooldown"
    /\ NextTick("cooldown", COOLDOWN_SECONDS)

\* The operator interrupts the process: KeyboardInterrupt is raised wherever
\* main() is
Interrupt ==
    /\ pc \in Running
    /\ LET l == Landing(pc, "KeyboardInterrupt") IN
        /\ pc' = l.pc
        /\ usdcad_triggered' = l.usd
        /\ boe_triggered' = l.boe
        /\ propagated' = l.out
    /\ interrupted' = TRUE
    /\ UNCHANGED <<config, now, tick, sent, postResult, tickEvals, fetches, clockReads,
                   lastFetch, downloadArgs, emptyRun, usdBranch, boeBranch, failed, startFired, lastSleep,
                   sleptSeconds,
                   sendArgs, requests, postOutcome, printed, sends>>

Next ==
    \/ UsdSkip
    \/ UsdEval
    \/ UsdPost
    \/ BoeSkip
    \/ BoeEval
    \/ BoePost
    \/ CheckAll
    \/ Sleep
    \/ Cooldown
    \/ Interrupt

Spec == Init /\ [][Next]_vars

\* Any configured trigger price
InitAnyTrigger ==
    /\ trigger \in Thresholds
    /\ announce = BOE_ANNOUNCEMENT_UTC
    /\ lead = ALERT_LEAD_SECONDS
    /\ InitRest

SpecAnyTrigger == InitAnyTrigger /\ [][Next]_vars

\* The loop left alone by the operator: every step the program can take is
\* taken in the end (each blocking call and each sleep returns)
NextUninterrupted ==
    \/ UsdSkip
    \/ UsdEval
    \/ UsdPost
    \/ BoeSkip
    \/ BoeEval
    \/ BoePost
    \/ CheckAll
    \/ Sleep
    \/ Cooldown

\* Starts of the left-alone loop: one before the alert window, one inside it
LiveOffsets == {-61, 0}

InitLive ==
    /\ trigger = USDCAD_ENTRY_TRIGGER
    /\ announce = BOE_ANNOUNCEMENT_UTC
    /\ lead = ALERT_LEAD_SECONDS
    /\ now \in {AlertWindowStart(announce, lead) + d : d \in LiveOffsets}
    /\ InitState

SpecLive == InitLive /\ [][NextUninterrupted]_vars /\ WF_vars(NextUninterrupted)

----------------------------------------------------------------------------
\* send_notification called on its own, as the test suite calls it

loopVars == <<usdcad_triggered, boe_triggered, config, now, tick, sent, postResult,
              tickEvals, fetches, clockReads, lastFetch, downloadArgs, emptyRun, usdBranch,
              boeBranch, failed, startFired, lastSleep, sleptSeconds, interrupted>>

InitSend ==
    /\ pc = "send_idle"
    /\ trigger = USDCAD_ENTRY_TRIGGER
    /\ announce = BOE_ANNOUNCEMENT_UTC
    /\ lead = ALERT_LEAD_SECONDS
    /\ now = AlertWindowStart(announce, lead)
    /\ InitData

\* send_notification(title, message, tags) up to its call of requests.post
SendCall ==
    /\ pc = "send_idle"
    /\ sends < MaxSends
    /\ \E title \in SendTitles, message \in SendMessages, tags \in SendTags :
        /\ sendArgs' = [title |-> title, message |-> message, tags |-> tags]
        /\ requests' = SendRequests(title, message, tags)
    /\ postOutcome' = "none"
    /\ printed' = "none"
    /\ sends' = sends + 1
    /\ pc' = "send_post"
    /\ UNCHANGED <<loopVars, propagated>>

\* requests.post ends, and send_notification with it
SendReturn ==
    /\ pc = "send_post"
    /\ \E o \in PostOutcomes :
        LET caught == SendCatches("Exception") IN
        /\ postOutcome' = o
        /\ printed' = IF o = "error" /\ ~caught THEN printed ELSE SendPrints(o)
        /\ pc' = IF o = "error" /\ ~caught THEN "crashed" ELSE "send_idle"
        /\ propagated' = IF o = "error" /\ ~caught THEN "Exception" ELSE propagated
    /\ UNCHANGED <<loopVars, sendArgs, requests, sends>>

NextSend ==
    \/ SendCall
    \/ SendReturn

SpecSend == InitSend /\ [][NextSend]_vars

\* Any configured announcement instant and lead time
InitAnyWindow ==
    /\ trigger = USDCAD_ENTRY_TRIGGER
    /\ announce \in Announcements
    /\ lead \in Leads
    /\ now \in {AlertWindowStart(announce, lead) + d : d \in WindowOffsets}
    /\ InitState

SpecAnyWindow == InitAnyWindow /\ [][Next]_vars

----------------------------------------------------------------------------
\* Properties

Fired(c) == IF c = "usdcad" THEN usdcad_triggered ELSE boe_triggered

PostPos(c) == IF c = "usdcad" THEN "usd_post" ELSE "boe_post"

flags == <<usdcad_triggered, boe_triggered>>

\* C1: send_notification is called at most once for each of the two
\* conditions in the lifetime of the process, whatever the fetches, the clock,
\* the deliveries and the caught errors were.
C1_AtMostOneNotification == \A c \in Conds : sent[c] <= 1

C1_Witness ==
    /\ sent["usdcad"] = 1
    /\ sent["boe"] = 1
    /\ tick >= 2
    /\ lastSleep = "cooldown"
    /\ postResult["usdcad"] = "error"

\* C2: the loop reaches "done" only with both flags true; once both flags are
\* true nothing is evaluated, fetched, sent or slept any more and the loop goes
\* straight to its exit test and out; with a flag false the only way to a
\* terminal state is an operator interrupt.
C2_ExitsExactlyWhenAllFired ==
    /\ [](/\ pc = "done" => usdcad_triggered /\ boe_triggered
          /\ (pc \in Terminal /\ ~(usdcad_triggered /\ boe_triggered)) => interrupted
          /\ (usdcad_triggered /\ boe_triggered)
                => pc \in {"check_boe", "check_all", "done", "stopped"})
    /\ [][(usdcad_triggered /\ boe_triggered) =>
            /\ tickEvals' = tickEvals
            /\ fetches' = fetches
            /\ clockReads' = clockReads
            /\ sent' = sent
            /\ tick' = tick
            /\ pc' \in {"check_all", "done", "stopped"}
            /\ (~interrupted' /\ pc = "check_all") => pc' = "done"]_vars

C2_Witness ==
    /\ pc = "done"
    /\ tick >= 1
    /\ startFired["usdcad"]
    /\ ~startFired["boe"]
    /\ ~interrupted

\* C3: once a condition's flag is true its check function is not called again,
\* no download (for USD/CAD) or clock comparison (for BoE) is made for it and
\* no notification is sent for it.
C3_FiredNeverReevaluated ==
    [][/\ usdcad_triggered =>
            /\ tickEvals'["usdcad"] <= tickEvals["usdcad"]
            /\ fetches' = fetches
            /\ lastFetch' = lastFetch
            /\ sent'["usdcad"] = sent["usdcad"]
       /\ boe_triggered =>
            /\ tickEvals'["boe"] <= tickEvals["boe"]
            /\ clockReads' = clockReads
            /\ sent'["boe"] = sent["boe"]]_vars

C3_Witness ==
    /\ usdcad_triggered
    /\ ~boe_triggered
    /\ tick >= 2
    /\ pc = "check_all"
    /\ tickEvals["usdcad"] = 0
    /\ tickEvals["boe"] = 1
    /\ sent["usdcad"] = 1

\* C4: a condition whose check called send_notification has its flag true as
\* soon as the post has ended, whether the post succeeded or not, and the
\* notification is sent once only: a failed delivery is not tried again.
C4_FiredDespiteDeliveryFailure ==
    \A c \in Conds :
        /\ postResult[c] # "none" => Fired(c) /\ sent[c] = 1
        /\ (sent[c] >= 1 /\ ~Fired(c))
              => (pc = PostPos(c) \/ (interrupted /\ postResult[c] = "none"))

C4_Witness ==
    /\ postResult["usdcad"] = "error"
    /\ postResult["boe"] = "http_error"
    /\ usdcad_triggered
    /\ boe_triggered
    /\ startFired["usdcad"]
    /\ tick >= 1
    /\ sent["usdcad"] = 1

\* C5: an operator interrupt, wherever it arrives, ends main() by "break":
\* no exception leaves main().
C5_InterruptExitsCleanly ==
    interrupted => (pc = "stopped" /\ propagated = "none")

\* C6: when the check of one condition raises an Exception in a tick, every
\* condition that was unfired when the tick began has still been evaluated by
\* the end of that tick, and the Exception does not leave main(): the loop
\* stays running.
C6_FailureDoesNotAbortSiblings ==
    /\ propagated # "Exception"
    /\ (failed # {} /\ ~interrupted) => pc \in Running
    /\ (failed # {} /\ ~interrupted /\ pc \in {"check_all", "sleep", "cooldown"})
          => \A c \in Conds : ~startFired[c] => tickEvals[c] = 1

C6_Witness ==
    /\ failed = {"usdcad"}
    /\ pc = "check_all"
    /\ ~startFired["boe"]
    /\ tickEvals["boe"] = 1
    /\ boeBranch = "triggered"
    /\ boe_triggered

\* C7: an Exception that reaches main's try statement never ends the loop: it
\* leads to the cooldown sleep with both flags as they were, and when the
\* cooldown sleep returns the next tick starts with both flags and the sent
\* counts still unchanged.
C7_TopLevelFailureKeepsLoop ==
    /\ [](/\ propagated # "Exception"
          /\ (pc \in Terminal /\ ~interrupted) => pc = "done")
    /\ [][/\ ("boe" \in failed' /\ "boe" \notin failed)
                => (pc' = "cooldown" /\ flags' = flags /\ sent' = sent)
          /\ (pc = "cooldown" /\ ~interrupted')
                => /\ pc' = "check_usd"
                   /\ tick' = tick + 1
                   /\ lastSleep' = "cooldown"
                   /\ flags' = flags
                   /\ sent' = sent]_vars

C7_Witness ==
    /\ lastSleep = "cooldown"
    /\ tick = 1
    /\ usdcad_triggered
    /\ sent["usdcad"] = 1
    /\ tickEvals["usdcad"] = 0
    /\ pc = "check_boe"

C9_EmptySeriesRetried ==
    /\ [](usdBranch = "no_data" => (~usdcad_triggered /\ sent["usdcad"] = 0))
    /\ [][/\ (fetches' = fetches + 1 /\ lastFetch'.kind = "data"
                  /\ Len(lastFetch'.closes) = 0)
                => /\ usdBranch' = "no_data"
                   /\ emptyRun' = emptyRun + 1
                   /\ sent' = sent
                   /\ usdcad_triggered' = FALSE
                   /\ pc' = "check_boe"
          /\ (pc = "check_usd" /\ emptyRun >= 1 /\ ~interrupted')
                => fetches' = fetches + 1]_vars

C9_Witness ==
    /\ emptyRun = 3
    /\ tick = 3
    /\ pc = "check_usd"
    /\ ~usdcad_triggered
    /\ sent["usdcad"] = 0

\* C10: on a non-empty frame whose last close is P, check_usdcad_breakout
\* calls send_notification exactly once and (once the post has ended) returns
\* True iff P > trigger; for P <= trigger, P = trigger included, it sends
\* nothing and returns False.  The closes before the last play no part.
C10_BreakoutIffStrictlyAbove ==
    [][/\ (fetches' = fetches + 1 /\ lastFetch'.kind = "data"
                  /\ Len(lastFetch'.closes) >= 1)
             => LET P == lastFetch'.closes[Len(lastFetch'.closes)] IN
                IF P > trigger
                THEN /\ usdBranch' = "triggered"
                     /\ sent' = [sent EXCEPT !["usdcad"] = @ + 1]
                     /\ pc' = "usd_post"
                ELSE /\ usdBranch' = "not_triggered"
                     /\ sent' = sent
                     /\ usdcad_triggered' = FALSE
                     /\ pc' = "check_boe"
       /\ (pc = "usd_post" /\ ~interrupted') => usdcad_triggered']_vars

C10_Witness ==
    /\ trigger = USDCAD_ENTRY_TRIGGER + 10
    /\ lastFetch.kind = "data"
    /\ lastFetch.closes = <<trigger + 1, trigger>>
    /\ usdBranch = "not_triggered"
    /\ ~usdcad_triggered
    /\ sent["usdcad"] = 0
    /\ pc = "check_boe"

\* C11: check_boe_announcement calls send_notification exactly once and (once
\* the post has ended) returns True iff the clock is at or after announce - lead,
\* the instant announce - lead itself included and however late the clock is;
\* before that instant it sends nothing and returns False.
C11_WindowIffAtOrAfterStart ==
    [][/\ clockReads' = clockReads + 1
             => IF now >= announce - lead
                THEN /\ boeBranch' = "triggered"
                     /\ sent' = [sent EXCEPT !["boe"] = @ + 1]
                     /\ pc' = "boe_post"
                ELSE /\ boeBranch' = "not_triggered"
                     /\ sent' = sent
                     /\ boe_triggered' = FALSE
                     /\ pc' = "check_all"
       /\ (pc = "boe_post" /\ ~interrupted') => boe_triggered']_vars

C11_Witness ==
    /\ announce = BOE_ANNOUNCEMENT_UTC + 3600
    /\ lead = 0
    /\ now = announce
    /\ tick = 1
    /\ boeBranch = "triggered"
    /\ sent["boe"] = 1
    /\ boe_triggered

\* C12: whatever way the post ends, send_notification returns to the check
\* that called it: the check returns, no exception reaches the check or main,
\* and the tick goes on with the next condition.
C12_DeliveryFailureStaysInSink ==
    [][/\ (pc = "usd_post" /\ ~interrupted')
             => /\ postOutcome' \in PostOutcomes
                /\ pc' = "check_boe"
                /\ failed' = failed
                /\ propagated' = "none"
       /\ (pc = "boe_post" /\ ~interrupted')
             => /\ postOutcome' \in PostOutcomes
                /\ pc' = "check_all"
                /\ failed' = failed
                /\ propagated' = "none"]_vars

C12_Witness ==
    /\ postResult["usdcad"] = "error"
    /\ tickEvals["usdcad"] = 1
    /\ pc = "check_all"
    /\ tickEvals["boe"] = 1
    /\ boeBranch = "not_triggered"
    /\ failed = {}

\* The code points a UTF-8 byte sequence stands for; <<-1>> marks bytes that
\* are not UTF-8
RECURSIVE Utf8Decode(_)
Utf8Decode(bytes) ==
    LET n == Len(bytes)
        b == bytes[1]
        Cont(i) == i <= n /\ bytes[i] >= 128 /\ bytes[i] < 192
        Rest(k) == Utf8Decode(SubSeq(bytes, k + 1, n))
    IN
    IF n = 0 THEN <<>>
    ELSE IF b < 128 THEN <<b>> \o Rest(1)
    ELSE IF b >= 192 /\ b < 224 /\ Cont(2)
         THEN <<(b - 192) * 64 + (bytes[2] - 128)>> \o Rest(2)
    ELSE IF b >= 224 /\ b < 240 /\ Cont(2) /\ Cont(3)
         THEN <<(b - 224) * 4096 + (bytes[2] - 128) * 64 + (bytes[3] - 128)>> \o Rest(3)
    ELSE IF b >= 240 /\ b < 248 /\ Cont(2) /\ Cont(3) /\ Cont(4)
         THEN <<(b - 240) * 262144 + (bytes[2] - 128) * 4096 + (bytes[3] - 128) * 64
                  + (bytes[4] - 128)>> \o Rest(4)
    ELSE <<-1>>

\* C15: a send_notification(title, message, tags) call makes exactly one
\* requests.post call: to https://ntfy.sh/<topic>, with the UTF-8 bytes of the
\* message as body and with the two headers Title = title and Tags = tags.
C15_OnePostWithMessageAndHeaders ==
    sends >= 1 =>
        /\ Len(requests) = 1
        /\ requests[1].url = "https://ntfy.sh/carlos-fx-alerts-1066"
        /\ \A i \in 1..Len(requests[1].data) : requests[1].data[i] \in 0..255
        /\ Utf8Decode(requests[1].data) = sendArgs.message
        /\ (sendArgs.message = <<8364, 66>> => requests[1].data = <<226, 130, 172, 66>>)
        /\ DOMAIN requests[1].headers = {"Title", "Tags"}
        /\ requests[1].headers.Title = sendArgs.title
        /\ requests[1].headers.Tags = sendArgs.tags

C15_Witness ==
    /\ sends = 2
    /\ pc = "send_idle"
    /\ sendArgs = [title |-> <<128276, 65>>, message |-> <<128680>>, tags |-> <<105>>]
    /\ Len(requests) = 1
    /\ requests[1].data = <<240, 159, 154, 168>>
    /\ postOutcome = "ok"

\* C17: a post that ends with a non-2xx response is logged as an error by
\* send_notification, not as a notification sent.
C17_Non2xxLoggedAsFailure ==
    postOutcome = "http_error" => printed = "error"

\* C13: both flags start false, and a flag that is true stays true through
\* every step, the steps of a tick that ends in a caught error included: a
\* flag changes at most once, from false to true.
C13_FlagsOnlyRise ==
    /\ ~usdcad_triggered /\ ~boe_triggered
    /\ [][/\ usdcad_triggered => usdcad_triggered'
          /\ boe_triggered => boe_triggered']_vars

C13_Witness ==
    /\ usdcad_triggered
    /\ startFired["usdcad"]
    /\ ~boe_triggered
    /\ lastSleep = "cooldown"
    /\ tick >= 2
    /\ pc = "cooldown"

\* C14: every yf.download call has exactly the arguments (USDCAD_TICKER,
\* period="1d", interval="1m"), as the tests assert.
C14_DownloadArgsAsTested ==
    fetches >= 1 =>
        downloadArgs = [ticker |-> "CAD=X",
                        kwargs |-> {<<"period", "1d">>, <<"interval", "1m">>}]

\* A fetch result whose last close is NaN or cannot be read
Unusable(f) ==
    \/ f.kind = "raise"
    \/ (f.kind = "data" /\ Len(f.closes) >= 1 /\ f.closes[Len(f.closes)] = NaN)

\* C16: a non-empty frame whose last close is NaN, or whose last close cannot
\* be read, sends nothing, leaves the flag false, lets no exception out of
\* the check, and the download is made again at the next tick.
C16_NaNLastCloseIsNotYet ==
    [][/\ (fetches' = fetches + 1 /\ Unusable(lastFetch'))
             => /\ sent' = sent
                /\ usdcad_triggered' = FALSE
                /\ pc' = "check_boe"
                /\ propagated' = "none"
                /\ (lastFetch'.kind = "data" => failed' = failed)
       /\ (pc = "check_usd" /\ Unusable(lastFetch) /\ ~interrupted')
             => fetches' = fetches + 1]_vars

C16_Witness ==
    /\ lastFetch = [kind |-> "data", closes |-> <<trigger + 1, NaN>>]
    /\ fetches = 2
    /\ tick = 1
    /\ pc = "check_boe"
    /\ usdBranch = "not_triggered"
    /\ ~usdcad_triggered
    /\ sent["usdcad"] = 0
    /\ failed = {}

\* C18: in a tick each check is called at most once, USD/CAD before BoE; a
\* tick starts only when a sleep returns (the interval sleep after a normal
\* tick, the cooldown sleep after a caught failure), so there are never more
\* downloads or clock comparisons than sleeps plus one.
C18_OneEvaluationPerTick ==
    /\ [](/\ \A c \in Conds : tickEvals[c] <= 1
          /\ fetches <= tick + 1
          /\ clockReads <= tick + 1
          /\ tickEvals["boe"] >= 1 => pc \notin {"check_usd", "usd_post"})
    /\ [][/\ pc' = "check_usd"
                => /\ pc \in {"sleep", "cooldown"}
                   /\ tick' = tick + 1
                   /\ lastSleep' = (IF pc = "sleep" THEN "interval" ELSE "cooldown")
                   /\ "boe" \in failed <=> pc = "cooldown"
          /\ tickEvals'["boe"] > tickEvals["boe"] => pc = "check_boe"
          /\ tickEvals'["usdcad"] > tickEvals["usdcad"]
                => (pc = "check_usd" /\ tickEvals["boe"] = 0)]_vars

C18_Witness ==
    /\ tick = 2
    /\ fetches = 3
    /\ clockReads = 2
    /\ lastSleep = "cooldown"
    /\ tickEvals["usdcad"] = 1
    /\ tickEvals["boe"] = 1
    /\ pc = "check_all"

\* C19: at the start of every tick and at the normal exit of the loop a flag
\* is true iff send_notification was called, once, for its condition; a flag
\* rises only in the tick of its condition's send, and the two flags never
\* change in the same step.
C19_FlagIffOneSend ==
    /\ [](pc \in {"check_usd", "sleep", "cooldown", "done"}
             => \A c \in Conds : /\ sent[c] \in {0, 1}
                                 /\ Fired(c) <=> sent[c] = 1)
    /\ [][/\ \A c \in Conds :
                (~Fired(c) /\ Fired(c)')
                    => (sent[c] = 1 /\ ~startFired[c] /\ tickEvals[c] = 1
                          /\ pc = PostPos(c))
          /\ ~(usdcad_triggered' # usdcad_triggered /\ boe_triggered' # boe_triggered)
         ]_vars

C19_Witness ==
    /\ pc = "check_usd"
    /\ tick >= 2
    /\ ~usdcad_triggered
    /\ sent["usdcad"] = 0
    /\ boe_triggered
    /\ sent["boe"] = 1
    /\ postResult["boe"] = "error"

====
